---- MODULE Spec2Model ----
(***************************************************************************)
(* Model of the message relay service (src/app.py): a Flask application    *)
(* that authenticates callers by API key, renders a named template and     *)
(* forwards it to the Telegram Bot API, and answers bot commands received  *)
(* on a webhook with reports built from a monitoring API.                  *)
(*                                                                         *)
(* Every HTTP handler is one action.  A handler runs from pc = "idle" and  *)
(* leaves its response, and the outbound traffic it caused, in the state   *)
(* (pc = "done"); Respond hands the response back and discards the         *)
(* per-request state.  The two JSON files and the monitoring API belong    *)
(* to the environment.                                                     *)
(***************************************************************************)
EXTENDS Integers, Sequences, FiniteSets, TLC

VARIABLES
    config_file,     \* content of instance/config.json
    templates_file,  \* content of templates.json
    monitor,         \* what GET {vm_monitor_url}/api/vms answers
    pc,              \* "idle" | "done"
    request,         \* the request being answered
    response,        \* [status, body] of the handler
    calls,           \* invocations of send_telegram_message, in order
    posts,           \* HTTP POSTs made to the Telegram sendMessage API, in order
    fetches,         \* GETs made to the monitoring API by this request
    prev_keys        \* api_keys the previous key-protected request loaded

vars == <<config_file, templates_file, monitor, pc, request, response,
          calls, posts, fetches, prev_keys>>

----------------------------------------------------------------------------
(* Bounds of the model *)

\* longest chat_ids list of a batch request
MaxBatch == 3

\* longest machine list of the lookup runs and of the summary runs
MaxVms == 6
MaxFleet == 3

----------------------------------------------------------------------------
(* Python values *)

\* None / an absent JSON field, for string-valued fields
None == "<None>"

\* Python truthiness of an optional string: None and "" are falsy
Truthy(s) == s # None /\ s # ""

\* `a or b`
Or(a, b) == IF Truthy(a) THEN a ELSE b

\* A chat id as JSON carries it: a number or a string, with its decimal text
ChatId(type, digits) == [type |-> type, digits |-> digits]
NoChat == ChatId("null", "")

\* str(chat_id): the decimal text, whatever the JSON type was
Str(c) == c.digits

\* truthiness of a chat id: None, 0 and "" are falsy
TruthyChat(c) == c.type # "null" /\ c.digits # "" /\ ~(c.type = "int" /\ c.digits = "0")

----------------------------------------------------------------------------
(* Config store *)

EmptyConfig ==
    [api_keys |-> {}, telegram_bot_token |-> "", authorized_chats |-> <<>>]

\* load_config: {} when the file is missing or is not valid JSON; the
\* defaults of the callers' config.get(...) are those of EmptyConfig.
load_config_stale == [EmptyConfig EXCEPT !.api_keys = prev_keys]
load_config ==
    IF config_file.state # "ok" THEN EmptyConfig ELSE config_file.content

get_authorized_chats == load_config.authorized_chats

----------------------------------------------------------------------------
(* Template store.  A format string is a sequence of literal pieces and   *)
(* replacement fields.                                                     *)

Lit(s) == [t |-> "lit", s |-> s]
Field(s) == [t |-> "field", s |-> s]

DEFAULT_TEMPLATES ==
    [n \in {"vm_alert", "vm_warning", "summary", "test", "custom"} |->
        CASE n = "vm_alert" ->
                <<Lit("(red) *"), Field("hostname"), Lit("* - "),
                  Field("resource"), Lit(" at "), Field("value"), Lit("%")>>
          [] n = "vm_warning" ->
                <<Lit("(warn) *"), Field("hostname"), Lit("* - "),
                  Field("resource"), Lit(" at "), Field("value"), Lit("%")>>
          [] n = "summary" ->
                <<Lit("(chart) *Alert Summary*\n"), Field("count"),
                  Lit(" VMs need attention")>>
          [] n = "test" ->
                <<Lit("(check) Message relay is working! Sent at "),
                  Field("timestamp")>>
          [] n = "custom" -> <<Field("message")>>]

\* dict merge of a and b: b wins key by key
Merge(a, b) ==
    [n \in DOMAIN a \cup DOMAIN b |-> IF n \in DOMAIN b THEN b[n] ELSE a[n]]

load_templates ==
    IF templates_file.state # "ok" THEN DEFAULT_TEMPLATES
    ELSE Merge(DEFAULT_TEMPLATES, templates_file.content)

----------------------------------------------------------------------------
(* Message formatter: template.format(variables) over named fields.  Fields *)
(* are resolved left to right; the first one with no variable raises      *)
(* KeyError(name).                                                         *)

RECURSIVE Format_blank(_, _)
Format_blank(template, variables) ==
    IF template = <<>> THEN [ok |-> TRUE, text |-> <<>>, key |-> ""]
    ELSE LET h == Head(template)
             rest == Format_blank(Tail(template), variables)
             piece == IF h.t = "lit" THEN h.s
                      ELSE IF h.s \in DOMAIN variables THEN variables[h.s] ELSE ""
         IN [ok |-> TRUE, text |-> <<piece>> \o rest.text, key |-> ""]

RECURSIVE Format(_, _)
Format(template, variables) ==
    IF template = <<>> THEN [ok |-> TRUE, text |-> <<>>, key |-> ""]
    ELSE LET h == Head(template) IN
         IF h.t = "field" /\ h.s \notin DOMAIN variables
         THEN [ok |-> FALSE, text |-> <<>>, key |-> h.s]
         ELSE LET rest == Format(Tail(template), variables)
                  piece == IF h.t = "field" THEN variables[h.s] ELSE h.s
              IN IF rest.ok
                 THEN [ok |-> TRUE, text |-> <<piece>> \o rest.text, key |-> ""]
                 ELSE rest

\* the names a format string references
Placeholders(template) ==
    {template[i].s : i \in {j \in DOMAIN template : template[j].t = "field"}}

\* `if "timestamp" not in variables: variables["timestamp"] = now`
WithTimestamp(variables, now) ==
    IF "timestamp" \in DOMAIN variables THEN variables
    ELSE [n \in DOMAIN variables \cup {"timestamp"} |->
            IF n = "timestamp" THEN now ELSE variables[n]]

\* A rendered template as message text
TemplateText(pieces) == [kind |-> "template", pieces |-> pieces]

----------------------------------------------------------------------------
(* Requests, responses and the traffic a handler causes *)

BlankRequest ==
    [endpoint |-> "", header |-> None, query |-> None, has_body |-> FALSE,
     template |-> None, chat_id |-> NoChat, chat_ids |-> <<>>,
     variables |-> <<>>, webhook_url |-> None,
     has_message |-> FALSE, text |-> <<>>]

\* jsonify(body), status
Reply(status, body) == [status |-> status, body |-> body]
NoResponse == Reply(0, [kind |-> "none"])

\* what a handler leaves behind: its response and its outbound traffic
Outcome(resp, cs, ps, n) ==
    [response |-> resp, calls |-> cs, posts |-> ps, fetches |-> n]
Quiet(resp) == Outcome(resp, <<>>, <<>>, 0)

\* the answer of the messaging API to the k-th POST of a request
Answer(answers, k) == IF k \in DOMAIN answers THEN answers[k] ELSE "timeout"

----------------------------------------------------------------------------
(* Auth gate *)

\* request.headers.get("X-API-Key") or request.args.get("api_key")
PresentedKey(req) == Or(req.header, req.query)

require_api_key_same_status(req, f) ==
    IF ~Truthy(PresentedKey(req)) \/ PresentedKey(req) \notin load_config.api_keys
    THEN Quiet(Reply(403, [error |-> <<"Invalid API key">>]))
    ELSE f
\* the decorator: f is what the decorated handler does with the request
require_api_key(req, f) ==
    LET api_keys == load_config.api_keys
        api_key == PresentedKey(req)
    IN IF ~Truthy(api_key)
       THEN Quiet(Reply(401, [error |-> <<"Missing API key">>]))
       ELSE IF api_key \notin api_keys
       THEN Quiet(Reply(403, [error |-> <<"Invalid API key">>]))
       ELSE f

----------------------------------------------------------------------------
(* Relay client *)

Result(ok, description, error) ==
    [ok |-> ok, description |-> description, error |-> error]

Post(method, chat_id, text) ==
    [method |-> method, chat_id |-> chat_id, text |-> text]

\* send_telegram_message(chat_id, text); `answer` is what the messaging API
\* does with the POST, if one is made.  Gives the result and the POSTs made.
send_telegram_message(chat_id, text, answer) ==
    LET bot_token == load_config.telegram_bot_token IN
    IF ~Truthy(bot_token)
    THEN [result |-> Result(FALSE, None, "Bot token not configured"), posts |-> <<>>]
    ELSE LET p == Post("sendMessage", chat_id, text) IN
         CASE answer = "ok" ->
                [result |-> Result(TRUE, None, None), posts |-> <<p>>]
           [] answer = "rejected" ->
                [result |-> Result(FALSE, "Bad Request: chat not found", None),
                 posts |-> <<p>>]
           [] OTHER ->  \* requests.post raised (timeout, connection error)
                [result |-> Result(FALSE, None, "timed out"), posts |-> <<p>>]

Call(chat_id, text, result) ==
    [chat_id |-> chat_id, text |-> text, result |-> result]

----------------------------------------------------------------------------
(* GET /, GET /templates *)

index ==
    Quiet(Reply(200, [service |-> "message-relay", status |-> "ok",
                      version |-> "1.1.0"]))

list_templates ==
    LET templates == load_templates IN
    Quiet(Reply(200, [templates |-> DOMAIN templates, details |-> templates]))

----------------------------------------------------------------------------
(* POST /send *)

send_message_status_swapped(req, answers, now) ==
    IF ~req.has_body \/ ~Truthy(req.template) \/ ~TruthyChat(req.chat_id)
       \/ req.template \notin DOMAIN load_templates
    THEN Quiet(Reply(400, [error |-> <<"bad request">>]))
    ELSE LET f == Format(load_templates[req.template], WithTimestamp(req.variables, now))
         IN IF ~f.ok THEN Quiet(Reply(500, [error |-> <<"Missing variable: ", f.key>>]))
            ELSE LET sent == send_telegram_message(req.chat_id, TemplateText(f.text),
                                                   Answer(answers, 1))
                 IN Outcome(Reply(200, [success |-> sent.result.ok]),
                            <<Call(req.chat_id, TemplateText(f.text), sent.result)>>,
                            sent.posts, 0)
send_message(req, answers, now) ==
    IF ~req.has_body
    THEN Quiet(Reply(400, [error |-> <<"Request body required">>]))
    ELSE IF ~Truthy(req.template)
    THEN Quiet(Reply(400, [error |-> <<"template is required">>]))
    ELSE IF ~TruthyChat(req.chat_id)
    THEN Quiet(Reply(400, [error |-> <<"chat_id is required">>]))
    ELSE LET templates == load_templates IN
    IF req.template \notin DOMAIN templates
    THEN Quiet(Reply(400, [error |-> <<"Unknown template: ", req.template>>,
                           available |-> DOMAIN templates]))
    ELSE LET template == templates[req.template]
             variables == WithTimestamp(req.variables, now)
             f == Format(template, variables)
         IN
    IF ~f.ok
    THEN Quiet(Reply(400, [error |-> <<"Missing variable: ", "'", f.key, "'">>,
                           template |-> template,
                           provided |-> DOMAIN variables]))
    ELSE LET message == TemplateText(f.text)
             sent == send_telegram_message(req.chat_id, message, Answer(answers, 1))
             result == sent.result
             call == <<Call(req.chat_id, message, result)>>
         IN
    IF result.ok
    THEN Outcome(Reply(200, [success |-> TRUE, message |-> "Message sent",
                             chat_id |-> req.chat_id, template |-> req.template]),
                 call, sent.posts, 0)
    ELSE Outcome(Reply(500, [success |-> FALSE,
                             error |-> IF Truthy(result.description)
                                       THEN <<result.description>>
                                       ELSE IF result.error # None THEN <<result.error>>
                                       ELSE <<"Unknown error">>]),
                 call, sent.posts, 0)

----------------------------------------------------------------------------
(* POST /send/batch *)

EmptyBatch == [results |-> <<>>, calls |-> <<>>, posts |-> <<>>]

\* one pass of `for chat_id in chat_ids`
BatchStep(acc, chat_id, message, answers) ==
    LET to == ChatId("str", Str(chat_id))
        sent == send_telegram_message(to, message, Answer(answers, Len(acc.posts) + 1))
    IN [results |-> Append(acc.results, [chat_id |-> chat_id, ok |-> sent.result.ok]),
        calls |-> Append(acc.calls, Call(to, message, sent.result)),
        posts |-> acc.posts \o sent.posts]

RECURSIVE BatchLoop_stop_at_failure(_, _, _, _)
BatchLoop_stop_at_failure(chat_ids, message, answers, acc) ==
    IF chat_ids = <<>> THEN acc
    ELSE LET next == BatchStep(acc, Head(chat_ids), message, answers) IN
         IF ~next.results[Len(next.results)].ok THEN next
         ELSE BatchLoop_stop_at_failure(Tail(chat_ids), message, answers, next)

RECURSIVE BatchLoop_newest_first(_, _, _, _)
BatchLoop_newest_first(chat_ids, message, answers, acc) ==
    IF chat_ids = <<>> THEN acc
    ELSE LET next == BatchStep(acc, Head(chat_ids), message, answers) IN
         BatchLoop_newest_first(Tail(chat_ids), message, answers,
            [next EXCEPT !.results = <<next.results[Len(next.results)]>> \o acc.results])

\* the loop over chat_ids, in the order given
RECURSIVE BatchLoop(_, _, _, _)
BatchLoop(chat_ids, message, answers, acc) ==
    IF chat_ids = <<>> THEN acc
    ELSE BatchLoop(Tail(chat_ids), message, answers,
                   BatchStep(acc, Head(chat_ids), message, answers))

\* sum(1 for r in results if r["ok"])
SuccessCount(results) == Len(SelectSeq(results, LAMBDA r : r.ok))

send_batch_renders_after_send(req, answers, now) ==
    IF ~req.has_body
    THEN Quiet(Reply(400, [error |-> <<"Request body required">>]))
    ELSE IF ~Truthy(req.template)
    THEN Quiet(Reply(400, [error |-> <<"template is required">>]))
    ELSE IF req.chat_ids = <<>>
    THEN Quiet(Reply(400, [error |-> <<"chat_ids is required">>]))
    ELSE LET templates == load_templates IN
    IF req.template \notin DOMAIN templates
    THEN Quiet(Reply(400, [error |-> <<"Unknown template: ", req.template>>,
                           available |-> DOMAIN templates]))
    ELSE LET template == templates[req.template]
             variables == WithTimestamp(req.variables, now)
             f == Format(template, variables)
             message == TemplateText(Format_blank(template, variables).text)
             done == BatchLoop(req.chat_ids, message, answers, EmptyBatch)
             success_count == SuccessCount(done.results)
         IN
    IF ~f.ok
    THEN Outcome(Reply(400, [error |-> <<"Missing variable: ", "'", f.key, "'">>]),
                 done.calls, done.posts, 0)
    ELSE Outcome(Reply(200, [success |-> success_count > 0,
                             sent |-> success_count,
                             total |-> Len(req.chat_ids),
                             results |-> done.results]),
                 done.calls, done.posts, 0)
send_batch(req, answers, now) ==
    IF ~req.has_body
    THEN Quiet(Reply(400, [error |-> <<"Request body required">>]))
    ELSE IF ~Truthy(req.template)
    THEN Quiet(Reply(400, [error |-> <<"template is required">>]))
    ELSE IF req.chat_ids = <<>>
    THEN Quiet(Reply(400, [error |-> <<"chat_ids is required">>]))
    ELSE LET templates == load_templates IN
    IF req.template \notin DOMAIN templates
    THEN Quiet(Reply(400, [error |-> <<"Unknown template: ", req.template>>,
                           available |-> DOMAIN templates]))
    ELSE LET template == templates[req.template]
             variables == WithTimestamp(req.variables, now)
             f == Format(template, variables)
         IN
    IF ~f.ok
    THEN Quiet(Reply(400, [error |-> <<"Missing variable: ", "'", f.key, "'">>]))
    ELSE LET message == TemplateText(f.text)
             done == BatchLoop(req.chat_ids, message, answers, EmptyBatch)
             success_count == SuccessCount(done.results)
         IN Outcome(Reply(200, [success |-> success_count > 0,
                                sent |-> success_count,
                                total |-> Len(req.chat_ids),
                                results |-> done.results]),
                    done.calls, done.posts, 0)

----------------------------------------------------------------------------
(* POST /webhook/setup, POST /webhook/delete *)

UrlText(url) == [kind |-> "url", pieces |-> <<url>>]

\* the setWebhook / deleteWebhook call and the response mapped from its answer
WebhookCall(method, text, answer, done) ==
    LET p == <<Post(method, NoChat, text)>> IN
    CASE answer = "ok" ->
            Outcome(Reply(200, [success |-> TRUE, message |-> done]), <<>>, p, 0)
      [] answer = "rejected" ->
            Outcome(Reply(400, [error |-> <<"Bad Request: bad webhook">>]), <<>>, p, 0)
      [] OTHER ->
            Outcome(Reply(500, [error |-> <<"timed out">>]), <<>>, p, 0)

setup_webhook(req, answers) ==
    IF ~Truthy(req.webhook_url)
    THEN Quiet(Reply(400, [error |-> <<"webhook_url is required">>]))
    ELSE IF ~Truthy(load_config.telegram_bot_token)
    THEN Quiet(Reply(400, [error |-> <<"Bot token not configured">>]))
    ELSE WebhookCall("setWebhook", UrlText(req.webhook_url), Answer(answers, 1),
                     "Webhook configured")

delete_webhook(req, answers) ==
    IF ~Truthy(load_config.telegram_bot_token)
    THEN Quiet(Reply(400, [error |-> <<"Bot token not configured">>]))
    ELSE WebhookCall("deleteWebhook", UrlText(""), Answer(answers, 1),
                     "Webhook deleted")

----------------------------------------------------------------------------
(* Python str methods, on strings held as sequences of characters *)

UpperCase == <<"A", "B", "C", "D", "E", "F", "G", "H", "I", "J", "K", "L", "M",
               "N", "O", "P", "Q", "R", "S", "T", "U", "V", "W", "X", "Y", "Z">>
LowerCase == <<"a", "b", "c", "d", "e", "f", "g", "h", "i", "j", "k", "l", "m",
               "n", "o", "p", "q", "r", "s", "t", "u", "v", "w", "x", "y", "z">>

LowerChar(c) ==
    IF \E i \in DOMAIN UpperCase : UpperCase[i] = c
    THEN LowerCase[CHOOSE i \in DOMAIN UpperCase : UpperCase[i] = c]
    ELSE c

\* s.lower()
Lower(s) == [i \in DOMAIN s |-> LowerChar(s[i])]

IsSpace(c) == c \in {" ", "\t", "\n"}

\* s.strip()
RECURSIVE LStrip(_)
LStrip(s) == IF s # <<>> /\ IsSpace(Head(s)) THEN LStrip(Tail(s)) ELSE s
RECURSIVE RStrip(_)
RStrip(s) ==
    IF s # <<>> /\ IsSpace(s[Len(s)]) THEN RStrip(SubSeq(s, 1, Len(s) - 1)) ELSE s
Strip(s) == RStrip(LStrip(s))

\* s.split(): the runs of non-whitespace characters
RECURSIVE SplitWords(_, _, _)
SplitWords(s, word, words) ==
    IF s = <<>> THEN (IF word = <<>> THEN words ELSE Append(words, word))
    ELSE IF IsSpace(Head(s))
    THEN SplitWords(Tail(s), <<>>, IF word = <<>> THEN words ELSE Append(words, word))
    ELSE SplitWords(Tail(s), Append(word, Head(s)), words)
Split(s) == SplitWords(s, <<>>, <<>>)

\* s.split(sep)[0]
RECURSIVE Before(_, _)
Before(s, sep) ==
    IF s = <<>> \/ Head(s) = sep THEN <<>> ELSE <<Head(s)>> \o Before(Tail(s), sep)

\* needle in hay
Contains(needle, hay) ==
    \E k \in 0..(Len(hay) - Len(needle)) :
        \A i \in DOMAIN needle : hay[k + i] = needle[i]

\* s[:n]
Prefix(s, n) == SubSeq(s, 1, IF Len(s) < n THEN Len(s) ELSE n)

----------------------------------------------------------------------------
(* Monitoring API and the reports built from its machine list *)

\* rows of the detailed report, candidates of a lookup, hostname width
MaxRows == 20
MaxCandidates == 5
HostWidth == 13

StaticText(line) == [kind |-> "static", line |-> line]
ErrorText(line) == [kind |-> "error", line |-> line]

\* requests.get(vm_monitor_url + "/api/vms") up to the isinstance check: the
\* machine list, or the reply that reports why there is none
FetchVms ==
    CASE monitor.mode \in {"ok", "wrapped"} -> [ok |-> TRUE, vms |-> monitor.vms, text |-> ErrorText("")]
      [] monitor.mode = "http_error" ->
            [ok |-> FALSE, vms |-> <<>>, text |-> ErrorText("(warn) API Error: 503")]
      [] monitor.mode = "not_list" ->
            [ok |-> FALSE, vms |-> <<>>, text |-> ErrorText("(warn) API returned dict, expected list")]
      [] OTHER ->  \* requests.get or response.json() raised
            [ok |-> FALSE, vms |-> <<>>, text |-> ErrorText("(x) Error: connection refused")]


\* the if / elif of the summary loop
Severity_strict(vm) ==
    IF vm.cpu_avg > 90 \/ vm.ram_percent > 90 THEN "alert"
    ELSE IF vm.cpu_avg > 80 \/ vm.ram_percent > 80 THEN "warning"
    ELSE "none"
Severity(vm) ==
    IF vm.cpu_avg >= 90 \/ vm.ram_percent >= 90 THEN "alert"
    ELSE IF vm.cpu_avg >= 80 \/ vm.ram_percent >= 80 THEN "warning"
    ELSE "none"

\* sum(1 for vm in vms if vm.get("status") == status)
CountStatus(vms, status) == Cardinality({i \in DOMAIN vms : vms[i].status = status})

\* the alerts and warnings counters after the loop
CountSeverity(vms, severity) ==
    Cardinality({i \in DOMAIN vms : Severity(vms[i]) = severity})

fetch_vm_summary ==
    LET got == FetchVms IN
    IF ~got.ok THEN got.text
    ELSE LET vms == got.vms
             online == CountStatus(vms, "online")
             offline == CountStatus(vms, "offline")
             alerts == CountSeverity(vms, "alert")
             warnings == CountSeverity(vms, "warning")
             status_emoji == IF alerts = 0 /\ warnings = 0 THEN "green"
                             ELSE IF alerts > 0 THEN "red" ELSE "yellow"
         IN [kind |-> "summary",
             lines |->
                <<[tag |-> "VM Monitor Summary", glyph |-> status_emoji],
                  [tag |-> "online, offline", online |-> online, offline |-> offline]>>
                \o (IF alerts > 0 THEN <<[tag |-> "critical alerts", n |-> alerts]>> ELSE <<>>)
                \o (IF warnings > 0 THEN <<[tag |-> "warnings", n |-> warnings]>> ELSE <<>>)
                \o (IF alerts = 0 /\ warnings = 0
                    THEN <<[tag |-> "All systems healthy"]>> ELSE <<>>)]

\* float(disk_str.strip('%')) of the alerts report: 0 unless disk_usage is a
\* string
AlertDisk(vm) == IF vm.disk_usage.type = "str" THEN vm.disk_usage.pct ELSE 0

AlertIssue(vm) ==
    LET cpu == vm.cpu_avg
        ram == vm.ram_percent
        disk == AlertDisk(vm)
    IN IF ~vm.online
       THEN <<[glyph |-> "red", hostname |-> vm.hostname, reason |-> <<"OFFLINE">>,
               last_seen |-> vm.last_seen]>>
       ELSE IF cpu >= 80 \/ ram >= 80 \/ disk >= 90
       THEN <<[glyph |-> IF cpu >= 90 \/ ram >= 90 \/ disk >= 95 THEN "red" ELSE "warn",
               hostname |-> vm.hostname,
               reason |-> (IF cpu >= 80 THEN <<"CPU">> ELSE <<>>)
                          \o (IF ram >= 80 THEN <<"RAM">> ELSE <<>>)
                          \o (IF disk >= 90 THEN <<"Disk">> ELSE <<>>),
               last_seen |-> ""]>>
       ELSE <<>>

RECURSIVE AlertIssues(_)
AlertIssues(vms) ==
    IF vms = <<>> THEN <<>> ELSE AlertIssue(Head(vms)) \o AlertIssues(Tail(vms))

fetch_vm_alerts ==
    LET got == FetchVms IN
    IF ~got.ok THEN got.text
    ELSE LET issues == AlertIssues(got.vms) IN
         IF issues = <<>> THEN StaticText("(check) *System Healthy* No active alerts found.")
         ELSE [kind |-> "alerts", issues |-> issues]

\* bar(percent): int(percent / 10) filled segments out of 10
Bar(percent) ==
    LET filled == percent \div 10 IN
    [filled |-> filled, empty |-> IF filled > 10 THEN 0 ELSE 10 - filled]

Matches_case_sensitive(hostname_query, vms) ==
    SelectSeq(vms, LAMBDA v : Contains(hostname_query, v.hostname))
\* [v for v in vms if hostname_query.lower() in v.get("hostname", "").lower()]
Matches(hostname_query, vms) ==
    SelectSeq(vms, LAMBDA v : Contains(Lower(hostname_query), Lower(v.hostname)))

fetch_vm_single(hostname_query) ==
    LET got == FetchVms IN
    IF ~got.ok THEN got.text
    ELSE LET matches == Matches(hostname_query, got.vms) IN
    IF matches = <<>>
    THEN [kind |-> "vm_not_found", query |-> hostname_query]
    ELSE IF Len(matches) > 1
    THEN [kind |-> "vm_matches", count |-> Len(matches),
          hostnames |-> [i \in DOMAIN Prefix(matches, MaxCandidates) |-> matches[i].hostname]]
    ELSE LET vm == matches[1] IN
         [kind |-> "vm_detail",
          glyph |-> IF vm.online THEN "green" ELSE "red",
          hostname |-> vm.hostname,
          os_name |-> vm.os_name,
          agent_version |-> vm.agent_version,
          pending_updates |-> vm.pending_updates,
          cpu |-> vm.cpu_avg, cpu_bar |-> Bar(vm.cpu_avg),
          ram |-> vm.ram_percent, ram_bar |-> Bar(vm.ram_percent),
          disk_usage |-> IF vm.disk_usage.type = "dict" THEN vm.disk_usage.mounts ELSE <<>>,
          last_seen |-> vm.last_seen]

\* the sort key (status == "online", -cpu_avg) and its order
KeyBefore(a, b) ==
    LET ka == IF a.status = "online" THEN 1 ELSE 0
        kb == IF b.status = "online" THEN 1 ELSE 0
    IN ka < kb \/ (ka = kb /\ (0 - a.cpu_avg) < (0 - b.cpu_avg))

\* sorted(vms, key=...): stable
RECURSIVE InsertByKey(_, _)
InsertByKey(sorted, vm) ==
    IF sorted = <<>> THEN <<vm>>
    ELSE IF KeyBefore(vm, Head(sorted)) THEN <<vm>> \o sorted
    ELSE <<Head(sorted)>> \o InsertByKey(Tail(sorted), vm)
RECURSIVE SortByKey(_, _)
SortByKey(vms, sorted) ==
    IF vms = <<>> THEN sorted ELSE SortByKey(Tail(vms), InsertByKey(sorted, Head(vms)))

RECURSIVE MaxPct(_)
MaxPct(mounts) ==
    IF mounts = <<>> THEN 0
    ELSE LET rest == MaxPct(Tail(mounts)) IN
         IF Head(mounts).pct > rest THEN Head(mounts).pct ELSE rest

DetailRow(vm) ==
    IF vm.online
    THEN [hostname |-> Prefix(vm.hostname, HostWidth), online |-> TRUE,
          cpu |-> vm.cpu_avg, ram |-> vm.ram_percent,
          disk |-> IF vm.disk_usage.type = "dict" THEN MaxPct(vm.disk_usage.mounts)
                   ELSE vm.disk_usage.pct]
    ELSE [hostname |-> Prefix(vm.hostname, HostWidth), online |-> FALSE,
          cpu |-> 0, ram |-> 0, disk |-> 0]

fetch_vm_detailed ==
    LET got == FetchVms IN
    IF ~got.ok THEN got.text
    ELSE LET vms == got.vms
             vms_sorted == SortByKey(vms, <<>>)
             shown == Prefix(vms_sorted, MaxRows)
         IN [kind |-> "fleet",
             rows |-> [i \in DOMAIN shown |-> DetailRow(shown[i])],
             more |-> IF Len(vms) > MaxRows THEN Len(vms) - MaxRows ELSE 0]

----------------------------------------------------------------------------
(* Command handler and POST /webhook *)

\* the command words
CMD_START == <<"/", "s", "t", "a", "r", "t">>
CMD_SUMMARY == <<"/", "s", "u", "m", "m", "a", "r", "y">>
CMD_ALERTS == <<"/", "a", "l", "e", "r", "t", "s">>
CMD_DETAILED == <<"/", "d", "e", "t", "a", "i", "l", "e", "d">>
CMD_DETAIL == <<"/", "d", "e", "t", "a", "i", "l">>
CMD_LIST == <<"/", "l", "i", "s", "t">>
CMD_VM == <<"/", "v", "m">>
CMD_HELP == <<"/", "h", "e", "l", "p">>

NotAuthorizedText == StaticText("(no entry) You are not authorized to use this bot.")
StartText == StaticText("(wave) *VM Monitor Bot* Available commands: ...")
HelpText == StaticText("(book) *Help* ...")
UsageText == StaticText("(i) Usage: /vm hostname")
UnknownText == StaticText("(?) Unknown command. Try /help")

\* one reply: send_telegram_message(chat_id, msg) after n fetches
ReplyWith(chat_id, msg, answers, n) ==
    LET sent == send_telegram_message(chat_id, msg, Answer(answers, 1)) IN
    [calls |-> <<Call(chat_id, msg, sent.result)>>, posts |-> sent.posts, fetches |-> n]

\* the dispatch on the parsed command
Dispatch(chat_id, command, answers) ==
    LET full_command == Strip(Lower(command))
        parts == Split(full_command)
        cmd == Before(parts[1], "@")
        args == Tail(parts)
    IN CASE cmd = CMD_START -> ReplyWith(chat_id, StartText, answers, 0)
         [] cmd = CMD_SUMMARY -> ReplyWith(chat_id, fetch_vm_summary, answers, 1)
         [] cmd = CMD_ALERTS -> ReplyWith(chat_id, fetch_vm_alerts, answers, 1)
         [] cmd \in {CMD_DETAILED, CMD_DETAIL, CMD_LIST} ->
                ReplyWith(chat_id, fetch_vm_detailed, answers, 1)
         [] cmd = CMD_VM ->
                IF args = <<>> THEN ReplyWith(chat_id, UsageText, answers, 0)
                ELSE ReplyWith(chat_id, fetch_vm_single(args[1]), answers, 1)
         [] cmd = CMD_HELP -> ReplyWith(chat_id, HelpText, answers, 0)
         [] OTHER -> ReplyWith(chat_id, UnknownText, answers, 0)

handle_bot_command_no_allow_list(chat_id, command, answers) ==
    Dispatch(chat_id, command, answers)
handle_bot_command(chat_id, command, answers) ==
    LET authorized == get_authorized_chats IN
    IF authorized # <<>>
       /\ Str(chat_id) \notin {Str(authorized[i]) : i \in DOMAIN authorized}
    THEN ReplyWith(chat_id, NotAuthorizedText, answers, 0)
    ELSE Dispatch(chat_id, command, answers)

NothingDone == [calls |-> <<>>, posts |-> <<>>, fetches |-> 0]

\* telegram_webhook up to its return: what the update made the service do
WebhookWork(req, answers) ==
    IF ~req.has_body THEN NothingDone
    ELSE LET text == IF req.has_message THEN req.text ELSE <<>>
             chat_id == IF req.has_message THEN req.chat_id ELSE NoChat
         IN IF ~TruthyChat(chat_id) \/ text = <<>> THEN NothingDone
            ELSE IF Head(text) = "/"
            THEN handle_bot_command(ChatId("str", Str(chat_id)), text, answers)
            ELSE NothingDone

telegram_webhook_reports_failure(req, answers) ==
    LET work == WebhookWork(req, answers)
        failed == \E i \in DOMAIN work.calls :
                      ~work.calls[i].result.ok \/ work.calls[i].text.kind = "error"
    IN Outcome(IF failed THEN Reply(500, [ok |-> FALSE]) ELSE Reply(200, [ok |-> TRUE]),
               work.calls, work.posts, work.fetches)
telegram_webhook(req, answers) ==
    LET work == WebhookWork(req, answers) IN
    Outcome(Reply(200, [ok |-> TRUE]), work.calls, work.posts, work.fetches)

----------------------------------------------------------------------------
(* Inputs of the API: the files' contents and the requests *)

FileOk(content) == [state |-> "ok", content |-> content]
FileMissing(empty) == [state |-> "missing", content |-> empty]
FileCorrupt(empty) == [state |-> "corrupt", content |-> empty]

Config(keys, token, chats) ==
    [api_keys |-> keys, telegram_bot_token |-> token, authorized_chats |-> chats]

ApiConfigFiles ==
    {FileOk(Config(keys, token, <<>>)) :
        keys \in {{}, {"k1"}, {"k1", "k2"}}, token \in {"", "TOKEN"}}
    \cup {FileMissing(EmptyConfig), FileCorrupt(EmptyConfig)}

Overrides ==
    [n \in {"custom", "report"} |->
        IF n = "custom"
        THEN <<Lit("[note] "), Field("message"), Lit(" / "), Field("note")>>
        ELSE <<Field("hostname"), Lit(" is at "), Field("value")>>]

TemplateFiles ==
    {FileOk(Overrides), FileMissing(DEFAULT_TEMPLATES), FileCorrupt(DEFAULT_TEMPLATES)}

\* <<X-API-Key header, api_key query parameter>>
Credentials ==
    {<<None, None>>, <<"", None>>, <<"k1", "bad">>, <<"bad", "k1">>,
     <<None, "k2">>, <<"", "k1">>}

ChatA == ChatId("int", "42")
ChatB == ChatId("str", "77")
ChatZero == ChatId("int", "0")

TemplateNames == {None, "", "nope", "vm_alert", "test", "custom", "report"}

VarMap(names) ==
    [n \in names |->
        CASE n = "hostname" -> "web-01"
          [] n = "resource" -> "CPU"
          [] n = "value" -> "95"
          [] n = "message" -> "hello"
          [] n = "note" -> "fyi"
          [] n = "timestamp" -> "caller time"
          [] OTHER -> "x"]

VarMaps ==
    {VarMap(names) :
        names \in {{}, {"hostname", "resource", "value"}, {"hostname", "value"},
                   {"value"}, {"message", "extra"}, {"message", "note"},
                   {"timestamp", "hostname"}}}

Clock == {"2026-01-01 12:00:00"}

UpstreamAnswers == {"ok", "rejected", "timeout"}

\* the messaging API's answers to the n POSTs of a request
Answers(n) == [1..n -> UpstreamAnswers]
AllOk == [k \in 1..(MaxBatch + 1) |-> "ok"]

ApiRequest(endpoint, cred) ==
    [BlankRequest EXCEPT !.endpoint = endpoint, !.header = cred[1], !.query = cred[2]]

SendRequests ==
    {ApiRequest("/send", cred) : cred \in Credentials}
    \cup {[ApiRequest("/send", cred) EXCEPT !.has_body = TRUE, !.template = t,
                                            !.chat_id = c, !.variables = v] :
            cred \in Credentials, t \in TemplateNames,
            c \in {NoChat, ChatA, ChatZero}, v \in VarMaps}

RECURSIVE SeqsUpTo(_, _)
SeqsUpTo(S, n) ==
    IF n = 0 THEN {<<>>}
    ELSE LET shorter == SeqsUpTo(S, n - 1) IN
         shorter \cup {Append(q, x) : q \in {r \in shorter : Len(r) = n - 1}, x \in S}

\* <<template, variable names>> of the batch requests
BatchRenderings ==
    {<<None, {}>>, <<"nope", {"hostname", "resource", "value"}>>,
     <<"vm_alert", {"hostname", "resource", "value"}>>, <<"vm_alert", {"value"}>>,
     <<"test", {}>>, <<"custom", {"message", "extra"}>>,
     <<"report", {"hostname", "value"}>>}

BatchRequests ==
    {ApiRequest("/send/batch", cred) : cred \in Credentials}
    \cup {[ApiRequest("/send/batch", cred) EXCEPT !.has_body = TRUE, !.template = r[1],
                                                  !.chat_ids = ids,
                                                  !.variables = VarMap(r[2])] :
            cred \in Credentials, r \in BatchRenderings,
            ids \in SeqsUpTo({ChatA, ChatB}, MaxBatch)}

SetupRequests ==
    {[ApiRequest("/webhook/setup", cred) EXCEPT !.has_body = (u # None), !.webhook_url = u] :
        cred \in Credentials, u \in {None, "https://relay.example/webhook"}}

----------------------------------------------------------------------------
(* The service *)

NoMonitor == [mode |-> "down", vms |-> <<>>]

Init ==
    /\ config_file \in ApiConfigFiles
    /\ templates_file \in TemplateFiles
    /\ monitor = NoMonitor
    /\ pc = "idle"
    /\ request = BlankRequest
    /\ response = NoResponse
    /\ calls = <<>>
    /\ posts = <<>>
    /\ fetches = 0
    /\ prev_keys = {}

\* a handler answers request req with outcome out
Handle(req, out) ==
    /\ pc = "idle"
    /\ pc' = "done"
    /\ request' = req
    /\ response' = out.response
    /\ calls' = out.calls
    /\ posts' = out.posts
    /\ fetches' = out.fetches
    /\ UNCHANGED <<config_file, templates_file, monitor, prev_keys>>

Protected == {"/templates", "/send", "/send/batch", "/webhook/setup", "/webhook/delete"}

\* the response goes back to the caller; nothing of the request is kept
Respond ==
    /\ pc = "done"
    /\ pc' = "idle"
    /\ request' = BlankRequest
    /\ response' = NoResponse
    /\ calls' = <<>>
    /\ posts' = <<>>
    /\ fetches' = 0
    /\ prev_keys' = IF request.endpoint \in Protected THEN load_config.api_keys
                    ELSE prev_keys
    /\ UNCHANGED <<config_file, templates_file, monitor>>

\* out-of-band edits of the two files, between requests
EditConfig ==
    /\ pc = "idle"
    /\ \E f \in ApiConfigFiles : f # config_file /\ config_file' = f
    /\ UNCHANGED <<templates_file, monitor, pc, request, response, calls, posts,
                   fetches, prev_keys>>

EditTemplates ==
    /\ pc = "idle"
    /\ \E f \in TemplateFiles : f # templates_file /\ templates_file' = f
    /\ UNCHANGED <<config_file, monitor, pc, request, response, calls, posts,
                   fetches, prev_keys>>

Index ==
    /\ pc = "idle"
    /\ \E out \in {index} : Handle([BlankRequest EXCEPT !.endpoint = "/"], out)

ListTemplates ==
    /\ pc = "idle"
    /\ \E cred \in Credentials :
        LET req == ApiRequest("/templates", cred) IN
        \E out \in {require_api_key(req, list_templates)} : Handle(req, out)

\* The messaging API answers each POST a handler makes; the answers are drawn
\* for as many POSTs as the request causes.
SendMessage ==
    /\ pc = "idle"
    /\ \E req \in SendRequests, now \in Clock :
        LET n == Len(require_api_key(req, send_message(req, AllOk, now)).posts) IN
        \E answers \in Answers(n) :
            \E out \in {require_api_key(req, send_message(req, answers, now))} :
                Handle(req, out)

SendBatch ==
    /\ pc = "idle"
    /\ \E req \in BatchRequests, now \in Clock :
        LET n == Len(require_api_key(req, send_batch(req, AllOk, now)).posts) IN
        \E answers \in Answers(n) :
            \E out \in {require_api_key(req, send_batch(req, answers, now))} :
                Handle(req, out)

SetupWebhook ==
    /\ pc = "idle"
    /\ \E req \in SetupRequests :
        LET n == Len(require_api_key(req, setup_webhook(req, AllOk)).posts) IN
        \E answers \in Answers(n) :
            \E out \in {require_api_key(req, setup_webhook(req, answers))} :
                Handle(req, out)

DeleteWebhook ==
    /\ pc = "idle"
    /\ \E cred \in Credentials :
        LET req == ApiRequest("/webhook/delete", cred)
            n == Len(require_api_key(req, delete_webhook(req, AllOk)).posts)
        IN \E answers \in Answers(n) :
            \E out \in {require_api_key(req, delete_webhook(req, answers))} :
                Handle(req, out)

Next ==
    \/ EditConfig
    \/ EditTemplates
    \/ Index
    \/ ListTemplates
    \/ SendMessage
    \/ SendBatch
    \/ SetupWebhook
    \/ DeleteWebhook
    \/ Respond

Spec == Init /\ [][Next]_vars

----------------------------------------------------------------------------
(* The command handler on its own: updates arriving on POST /webhook, with  *)
(* the monitoring API's machine list drawn from bounded sets                *)

Disk(mounts) == [type |-> "dict", mounts |-> mounts, pct |-> 0]
DiskStr(pct) == [type |-> "str", mounts |-> <<>>, pct |-> pct]

Vm(hostname, status, online, cpu, ram, disk) ==
    [hostname |-> hostname, status |-> status, online |-> online,
     cpu_avg |-> cpu, ram_percent |-> ram, disk_usage |-> disk,
     last_seen |-> "2026-01-01T11:59:00", os_name |-> "Ubuntu 24.04",
     agent_version |-> "1.4", pending_updates |-> 3]

RootDisk == Disk(<<[mount |-> "/", pct |-> 20], [mount |-> "/data", pct |-> 91]>>)

\* machines told apart by their hostnames
HostPool ==
    {Vm(<<"W", "e", "b", "1">>, "online", TRUE, 35, 40, RootDisk),
     Vm(<<"w", "e", "b", "-", "2">>, "online", TRUE, 85, 40, RootDisk),
     Vm(<<"D", "B">>, "offline", FALSE, 0, 0, DiskStr(96))}

\* machines told apart by their load and state
LoadPool ==
    {Vm(<<"n", "o", "d", "e">>, st[1], st[2], load[1], load[2], RootDisk) :
        st \in {<<"online", TRUE>>, <<"offline", FALSE>>},
        load \in {<<10, 79>>, <<80, 10>>, <<89, 90>>, <<95, 85>>}}
    \cup {Vm(<<"n", "o", "d", "e">>, None, TRUE, 10, 10, RootDisk)}

Monitor(mode, vms) == [mode |-> mode, vms |-> vms]

BotMonitors ==
    {Monitor(mode, <<>>) : mode \in {"ok", "http_error", "not_list", "down"}}
    \cup {Monitor(mode,
                  <<Vm(<<"W", "e", "b", "1">>, "online", TRUE, 35, 40, RootDisk),
                    Vm(<<"D", "B">>, "offline", FALSE, 0, 0, DiskStr(96)),
                    Vm(<<"w", "e", "b", "-", "2">>, "online", TRUE, 85, 92, RootDisk)>>) :
            mode \in {"ok", "wrapped"}}

BotConfigFiles ==
    {FileOk(Config({"k1"}, token, chats)) :
        token \in {"", "TOKEN"},
        chats \in {<<>>, <<ChatA>>, <<ChatId("str", "42"), ChatId("int", "7")>>}}
    \cup {FileMissing(EmptyConfig)}

Update(has_body, has_message, chat_id, text) ==
    [BlankRequest EXCEPT !.endpoint = "/webhook", !.has_body = has_body,
                         !.has_message = has_message, !.chat_id = chat_id,
                         !.text = text]

CommandTexts ==
    {<<"/", "s", "t", "a", "r", "t">>, <<"/", "s", "u", "m", "m", "a", "r", "y">>, <<"/", "S", "u", "m", "m", "a", "r", "y", "@", "r", "e", "l", "a", "y", "b", "o", "t">>, <<"/", "a", "l", "e", "r", "t", "s">>, <<"/", "d", "e", "t", "a", "i", "l", "e", "d">>, <<"/", "d", "e", "t", "a", "i", "l">>,
     <<"/", "l", "i", "s", "t">>, <<"/", "v", "m">>, <<"/", "v", "m", " ", "W", "E", "B">>, <<"/", "h", "e", "l", "p">>, <<"/", "r", "e", "b", "o", "o", "t", " ", "n", "o", "w">>, <<"/">>}

BotUpdates ==
    {Update(FALSE, FALSE, NoChat, <<>>), Update(TRUE, FALSE, NoChat, <<>>),
     Update(TRUE, TRUE, ChatA, <<>>), Update(TRUE, TRUE, NoChat, <<"/", "s", "t", "a", "r", "t">>),
     Update(TRUE, TRUE, ChatZero, <<"/", "h", "e", "l", "p">>), Update(TRUE, TRUE, ChatA, <<"h", "e", "l", "l", "o">>),
     Update(TRUE, TRUE, ChatB, <<" ", "/", "h", "e", "l", "p">>)}
    \cup {Update(TRUE, TRUE, c, t) : c \in {ChatA, ChatB}, t \in CommandTexts}

LookupUpdates ==
    {Update(TRUE, TRUE, ChatA, t) :
        t \in {<<"/", "v", "m", " ", "w", "e", "b">>, <<"/", "v", "m", " ", "W", "E", "B", "1">>, <<"/", "V", "M", " ", "b">>, <<"/", "v", "m", "@", "r", "e", "l", "a", "y", "b", "o", "t", " ", "d", "b", " ", "e", "x", "t", "r", "a">>, <<"/", "v", "m", " ", "x">>, <<"/", "v", "m">>}}

SummaryUpdates ==
    {Update(TRUE, TRUE, ChatA, t) : t \in {<<"/", "s", "u", "m", "m", "a", "r", "y">>, <<" ", "/", "s", "u", "m", "m", "a", "r", "y">>, <<"/", "S", "U", "M", "M", "A", "R", "Y", "@", "r", "e", "l", "a", "y", "b", "o", "t", " ", "n", "o", "w">>}}

\* POST /webhook with an update of the given set
Webhook(updates) ==
    /\ pc = "idle"
    /\ \E req \in updates :
        LET n == Len(telegram_webhook(req, AllOk).posts) IN
        \E answers \in Answers(n) :
            \E out \in {telegram_webhook(req, answers)} : Handle(req, out)

BlankState ==
    /\ templates_file = FileMissing(DEFAULT_TEMPLATES)
    /\ pc = "idle"
    /\ request = BlankRequest
    /\ response = NoResponse
    /\ calls = <<>>
    /\ posts = <<>>
    /\ fetches = 0
    /\ prev_keys = {}

TelegramWebhook == Webhook(BotUpdates)

InitBot ==
    /\ config_file \in BotConfigFiles
    /\ monitor \in BotMonitors
    /\ BlankState

NextBot ==
    \/ TelegramWebhook
    \/ Respond

SpecBot == InitBot /\ [][NextBot]_vars

VmLookup == Webhook(LookupUpdates)

InitLookup ==
    /\ config_file = FileOk(Config({"k1"}, "TOKEN", <<>>))
    /\ monitor \in {Monitor("ok", vms) : vms \in SeqsUpTo(HostPool, MaxVms)}
    /\ BlankState

NextLookup ==
    \/ VmLookup
    \/ Respond

SpecLookup == InitLookup /\ [][NextLookup]_vars

VmSummary == Webhook(SummaryUpdates)

InitSummary ==
    /\ config_file = FileOk(Config({"k1"}, "TOKEN", <<>>))
    /\ monitor \in {Monitor("ok", vms) : vms \in SeqsUpTo(LoadPool, MaxFleet)}
    /\ BlankState

NextSummary ==
    \/ VmSummary
    \/ Respond

SpecSummary == InitSummary /\ [][NextSummary]_vars

\* machines of the detailed report: hostnames are distinct, so that a row of
\* the table tells which machine it shows
Digit == <<"0", "1", "2", "3", "4", "5", "6", "7", "8", "9">>
Host(i) == <<"v", "m", "-", Digit[(i \div 10) + 1], Digit[(i % 10) + 1]>>

\* <<status, online, cpu_avg>>; the last record has no status field
StatePool ==
    <<<<"online", TRUE, 35>>, <<"offline", FALSE, 0>>, <<"online", TRUE, 85>>,
      <<"offline", FALSE, 50>>, <<None, TRUE, 10>>>>

Machine(i, k) ==
    Vm(Host(i), StatePool[k][1], StatePool[k][2], StatePool[k][3], 40, RootDisk)

\* machines beyond the rows of the table
MaxExtra == 2

\* every short list, and lists about as long as the table, machine i in the
\* state (i + shift) mod the number of states
Fleets ==
    {[i \in 1..n |-> Machine(i, f[i])] :
        n \in 1..MaxFleet, f \in [1..MaxFleet -> DOMAIN StatePool]}
    \cup {[i \in 1..n |-> Machine(i, ((i + shift) % Len(StatePool)) + 1)] :
            n \in (MaxRows - 1)..(MaxRows + MaxExtra), shift \in DOMAIN StatePool}

DetailedUpdates ==
    {Update(TRUE, TRUE, ChatA, t) :
        t \in {CMD_DETAILED, CMD_LIST, CMD_DETAIL \o <<"@", "b", "o", "t">>}}

VmDetailed == Webhook(DetailedUpdates)

InitDetailed ==
    /\ config_file = FileOk(Config({"k1"}, "TOKEN", <<>>))
    /\ monitor \in {Monitor("ok", vms) : vms \in Fleets}
    /\ BlankState

NextDetailed ==
    \/ VmDetailed
    \/ Respond

SpecDetailed == InitDetailed /\ [][NextDetailed]_vars

----------------------------------------------------------------------------
(* What the claims read off the state *)

\* the accepted keys and the bot token as they stand in the config file
FileKeys == IF config_file.state = "ok" THEN config_file.content.api_keys ELSE {}
FileToken ==
    IF config_file.state = "ok" THEN config_file.content.telegram_bot_token ELSE ""

\* the built-in templates overlaid by the override file
MergedTemplates ==
    [n \in DOMAIN DEFAULT_TEMPLATES
           \cup (IF templates_file.state = "ok" THEN DOMAIN templates_file.content ELSE {}) |->
        IF templates_file.state = "ok" /\ n \in DOMAIN templates_file.content
        THEN templates_file.content[n] ELSE DEFAULT_TEMPLATES[n]]

\* the key the caller presented: the header, else the query parameter
CallerKey ==
    IF request.header \notin {None, ""} THEN request.header ELSE request.query
NoCallerKey == CallerKey \in {None, ""}

Answered(endpoint) == pc = "done" /\ request.endpoint = endpoint
GateRejected == response.status \in {401, 403}
NoTraffic == calls = <<>> /\ posts = <<>> /\ fetches = 0

----------------------------------------------------------------------------
(* C1 *)

\* C1: on every key-protected endpoint a request with no key gets 401
\* "Missing API key", a request with a key outside the accepted set gets 403
\* "Invalid API key", and only a request whose key is in the accepted set gets
\* past the gate (any other status, any outbound traffic).
C1_GateDecision ==
    (pc = "done" /\ request.endpoint \in Protected) =>
        /\ NoCallerKey =>
              response = Reply(401, [error |-> <<"Missing API key">>]) /\ NoTraffic
        /\ (~NoCallerKey /\ CallerKey \notin FileKeys) =>
              response = Reply(403, [error |-> <<"Invalid API key">>]) /\ NoTraffic
        /\ (~NoCallerKey /\ CallerKey \in FileKeys) => ~GateRejected

\* the header holds a key that is not accepted while the query parameter holds
\* one that is: rejected with 403
C1_Witness ==
    /\ Answered("/send/batch")
    /\ request.header = "bad" /\ request.query \in FileKeys
    /\ response.status = 403

----------------------------------------------------------------------------
(* C8 *)

\* C8: the gate decides every request against the accepted keys as they stand
\* in the config file when the request arrives, whatever an earlier request
\* loaded: a key is let through exactly when the file holds it at that time.
C8_FreshConfig ==
    [][(pc = "idle" /\ pc' = "done" /\ request'.endpoint \in Protected) =>
          LET key == IF request'.header \notin {None, ""} THEN request'.header
                     ELSE request'.query
          IN key \notin {None, ""} =>
                ((response'.status \notin {401, 403}) <=> key \in FileKeys)]_vars

\* a key the previous protected request still found in the file has been
\* removed since, and the next request presenting it is rejected
C8_Witness ==
    /\ pc = "done" /\ request.endpoint \in Protected
    /\ ~NoCallerKey /\ CallerKey \in prev_keys /\ CallerKey \notin FileKeys
    /\ response.status = 403

----------------------------------------------------------------------------
(* C2, C5: validation and rendering *)

\* the request got past the gate and names a chat and a known template
SendValidated ==
    /\ Answered("/send") /\ ~GateRejected
    /\ request.has_body /\ request.template \notin {None, ""}
    /\ TruthyChat(request.chat_id)
    /\ request.template \in DOMAIN MergedTemplates

BatchValidated ==
    /\ Answered("/send/batch") /\ ~GateRejected
    /\ request.has_body /\ request.template \notin {None, ""}
    /\ request.chat_ids # <<>>
    /\ request.template \in DOMAIN MergedTemplates

\* the placeholders of the chosen template the caller gave no variable for
Unsupplied == Placeholders(MergedTemplates[request.template]) \ DOMAIN request.variables

\* the same, leaving out the timestamp, which the service fills in
Missing == Unsupplied \ {"timestamp"}

\* the first placeholder of the template, in its order, that is in the set
FirstOf(names) ==
    LET template == MergedTemplates[request.template]
        i == CHOOSE j \in DOMAIN template :
                /\ template[j].t = "field" /\ template[j].s \in names
                /\ \A k \in 1..(j - 1) : ~(template[k].t = "field" /\ template[k].s \in names)
    IN template[i].s

\* the status of POST /send, given the set of placeholders that count as
\* not supplied
SendStatusIs(absent) ==
    IF ~request.has_body \/ request.template \in {None, ""}
       \/ ~TruthyChat(request.chat_id)
    THEN response.status = 400
    ELSE IF request.template \notin DOMAIN MergedTemplates
    THEN /\ response.status = 400
         /\ response.body.error = <<"Unknown template: ", request.template>>
         /\ response.body.available = DOMAIN MergedTemplates
    ELSE IF absent # {}
    THEN response.status = 400
    ELSE IF ~calls[1].result.ok
    THEN response.status = 500
    ELSE response.status = 200 /\ response.body.success = TRUE

\* C2 as stated: 400 when template or chat_id is missing, 400 "Unknown
\* template" with the available names when the name is unknown, 400 when the
\* template references a variable that was not supplied, 500 when delivery is
\* not ok, 200 with success otherwise.
C2_Original ==
    (Answered("/send") /\ ~GateRejected) => SendStatusIs(Unsupplied)

\* C2 amended: the same, where a variable that was not supplied is one other
\* than timestamp (a timestamp the caller left out is filled in).
C2_SendStatus ==
    (Answered("/send") /\ ~GateRejected) => SendStatusIs(Missing)

\* the built-in test template, sent without a timestamp, is delivered
C2_Witness ==
    /\ SendValidated /\ request.template = "test"
    /\ "timestamp" \notin DOMAIN request.variables
    /\ response.status = 200

\* the response of a request whose rendering failed on placeholder k
NamesMissing(k) ==
    /\ response.status = 400
    /\ response.body.error = <<"Missing variable: ", "'", k, "'">>
    /\ NoTraffic

\* the text that must go out when nothing is missing: literals and the
\* caller's values, extras left out
Rendered(text) ==
    LET template == MergedTemplates[request.template] IN
    /\ text.kind = "template"
    /\ Len(text.pieces) = Len(template)
    /\ \A i \in DOMAIN template :
          IF template[i].t = "lit" THEN text.pieces[i] = template[i].s
          ELSE IF template[i].s \in DOMAIN request.variables
          THEN text.pieces[i] = request.variables[template[i].s]
          ELSE template[i].s = "timestamp" /\ text.pieces[i] \in Clock

\* C5 as stated: a variable mapping that lacks a placeholder of the template
\* makes rendering fail with an error naming a missing key and nothing is
\* sent; otherwise rendering succeeds.
C5_Original ==
    (SendValidated \/ BatchValidated) =>
        IF Unsupplied # {}
        THEN \E k \in Unsupplied : NamesMissing(k)
        ELSE calls # <<>>

\* C5 amended: a variable mapping that lacks a placeholder other than
\* timestamp makes rendering fail with an error naming the first missing
\* placeholder of the template, and nothing is sent; when every placeholder
\* other than timestamp is supplied the message goes out with the caller's
\* values, the timestamp filled in if absent, and extra variables left out.
C5_Render ==
    (SendValidated \/ BatchValidated) =>
        IF Missing # {}
        THEN NamesMissing(FirstOf(Missing))
        ELSE /\ calls # <<>>
             /\ \A i \in DOMAIN calls : Rendered(calls[i].text)

\* two placeholders are missing; the error names the first of the template
C5_Witness ==
    /\ BatchValidated /\ request.template = "vm_alert"
    /\ Missing = {"hostname", "resource"}
    /\ response.body.error = <<"Missing variable: ", "'", "hostname", "'">>

----------------------------------------------------------------------------
(* C3, C4: batch send *)

\* the request was rendered and the loop over chat_ids ran
BatchSent == BatchValidated /\ Missing = {}

\* C3: a batch to N recipients answers 200 with total = N, sent = the number
\* of recipients whose delivery result is ok, and N results, the i-th with
\* the i-th chat id given and that recipient's own ok.
C3_BatchResult ==
    BatchSent =>
        LET N == Len(request.chat_ids)
            M == Cardinality({i \in DOMAIN calls : calls[i].result.ok})
        IN /\ response.status = 200
           /\ Len(calls) = N
           /\ response.body.total = N
           /\ response.body.sent = M
           /\ Len(response.body.results) = N
           /\ \A i \in 1..N :
                 /\ response.body.results[i].chat_id = request.chat_ids[i]
                 /\ response.body.results[i].ok = calls[i].result.ok

\* three recipients, two different chats, only the second delivery succeeds
C3_Witness ==
    /\ BatchSent /\ Len(request.chat_ids) = 3
    /\ request.chat_ids[1] # request.chat_ids[2]
    /\ ~calls[1].result.ok /\ calls[2].result.ok /\ ~calls[3].result.ok
    /\ response.body.sent = 1

\* the i-th recipient was handed to the relay client, as a string
CalledInOrder ==
    /\ Len(calls) = Len(request.chat_ids)
    /\ \A i \in DOMAIN calls : calls[i].chat_id = ChatId("str", request.chat_ids[i].digits)

\* one POST per recipient, in the order given
PostedInOrder ==
    /\ Len(posts) = Len(request.chat_ids)
    /\ \A i \in DOMAIN posts :
          posts[i] = Post("sendMessage", calls[i].chat_id, calls[i].text)

\* C4 as stated: the messaging API is called exactly once per chat id, in the
\* order given, whatever fails.
C4_Original == BatchSent => (CalledInOrder /\ PostedInOrder)

\* C4 amended: the relay client is invoked exactly once per chat id, in the
\* order given; with a bot token configured each invocation makes exactly one
\* call to the messaging API, failed or not, and without one it makes none and
\* records ok = false.
C4_OncePerChat ==
    BatchSent =>
        /\ CalledInOrder
        /\ IF FileToken # "" THEN PostedInOrder
           ELSE posts = <<>> /\ \A i \in DOMAIN calls : ~calls[i].result.ok

\* the first call fails and the two later recipients are still called
C4_Witness ==
    /\ BatchSent /\ FileToken # "" /\ Len(request.chat_ids) = 3
    /\ request.chat_ids[1] # request.chat_ids[2]
    /\ ~calls[1].result.ok /\ calls[1].result.error = "timed out"
    /\ Len(posts) = 3

----------------------------------------------------------------------------
(* C6, C7: the webhook *)

\* the update carries a command: a chat id and a text starting with "/"
IsCommand ==
    /\ Answered("/webhook") /\ request.has_body /\ request.has_message
    /\ TruthyChat(request.chat_id)
    /\ request.text # <<>> /\ request.text[1] = "/"

\* the allow-list as it stands in the config file
FileAuthorized ==
    IF config_file.state = "ok" THEN config_file.content.authorized_chats ELSE <<>>

\* the sender's chat id, as text, is on no entry of a non-empty allow-list
Unauthorized ==
    /\ FileAuthorized # <<>>
    /\ \A i \in DOMAIN FileAuthorized : FileAuthorized[i].digits # request.chat_id.digits

Sender == ChatId("str", request.chat_id.digits)

\* C6: with a non-empty allow-list, a command from a chat id that is not on
\* it (compared as strings) makes the service send the fixed "not authorized"
\* reply to that chat and do nothing else: no other reply, no fetch from the
\* monitoring API, whatever the command is.
C6_Unauthorized ==
    (IsCommand /\ Unauthorized) =>
        /\ Len(calls) = 1
        /\ calls[1].chat_id = Sender /\ calls[1].text = NotAuthorizedText
        /\ fetches = 0
        /\ Len(posts) <= 1
        /\ \A i \in DOMAIN posts : posts[i] = Post("sendMessage", Sender, NotAuthorizedText)

\* an unauthorized chat asks for the summary: the refusal is posted and the
\* monitoring API is left alone
C6_Witness ==
    /\ IsCommand /\ Unauthorized
    /\ Before(Split(Strip(Lower(request.text)))[1], "@") = CMD_SUMMARY
    /\ monitor.mode = "ok"
    /\ posts = <<Post("sendMessage", Sender, NotAuthorizedText)>>

\* C7: POST /webhook answers {ok: true} with status 200 whatever the update
\* holds and whatever became of the command: refused, unknown, monitoring API
\* failing, messaging API failing.
C7_AlwaysOk ==
    Answered("/webhook") => response = Reply(200, [ok |-> TRUE])

\* the monitoring API is down and the error reply itself times out
C7_Witness ==
    /\ IsCommand /\ monitor.mode = "down" /\ fetches = 1
    /\ Len(calls) = 1 /\ calls[1].text.kind = "error"
    /\ calls[1].result.error = "timed out"
    /\ response = Reply(200, [ok |-> TRUE])

----------------------------------------------------------------------------
(* C9: /vm *)

\* the words of the command, and the command word without its @botname
Words == Split(Strip(Lower(request.text)))
CommandWord == Before(Words[1], "@")

\* needle occurs in hay, letter case set aside
ContainsCI(needle, hay) ==
    \E k \in 0..(Len(hay) - Len(needle)) :
        \A i \in DOMAIN needle : LowerChar(hay[k + i]) = LowerChar(needle[i])

\* the machines of the monitoring list whose hostname contains the query
Hits ==
    LET query == Words[2] IN
    SelectSeq(monitor.vms, LAMBDA v : ContainsCI(query, v.hostname))

IsLookup == IsCommand /\ CommandWord = CMD_VM /\ Len(Words) >= 2

----------------------------------------------------------------------------
(* C10: /summary *)

IsSummary == IsCommand /\ CommandWord = CMD_SUMMARY

Machines == DOMAIN monitor.vms
Alerting == {i \in Machines : monitor.vms[i].cpu_avg >= 90 \/ monitor.vms[i].ram_percent >= 90}
Warning ==
    {i \in Machines : monitor.vms[i].cpu_avg >= 80 \/ monitor.vms[i].ram_percent >= 80}
    \ Alerting

\* the lines of the report that carry the tag
LinesTagged(tag) ==
    {i \in DOMAIN calls[1].text.lines : calls[1].text.lines[i].tag = tag}

\* the report has one line with the tag, giving the count, or none when the
\* count is 0
CountLine(tag, n) ==
    IF n = 0 THEN LinesTagged(tag) = {}
    ELSE /\ Cardinality(LinesTagged(tag)) = 1
         /\ \A i \in LinesTagged(tag) : calls[1].text.lines[i].n = n

\* C10: the summary gives the number of machines whose status is online and
\* the number whose status is offline; a machine counts as an alert when CPU
\* or RAM >= 90, as a warning when CPU or RAM >= 80 and neither >= 90; the
\* glyph is that of the most severe class present; with every machine online
\* and below 80 the report counts them all online, has the "All systems
\* healthy" line and no alert or warning count.
C10_Summary ==
    (IsSummary /\ monitor.mode = "ok") =>
        /\ Len(calls) = 1 /\ calls[1].text.kind = "summary"
        /\ LET lines == calls[1].text.lines
               online == {i \in Machines : monitor.vms[i].status = "online"}
               offline == {i \in Machines : monitor.vms[i].status = "offline"}
           IN /\ lines[1].glyph = (IF Alerting # {} THEN "red"
                                   ELSE IF Warning # {} THEN "yellow" ELSE "green")
              /\ lines[2].online = Cardinality(online)
              /\ lines[2].offline = Cardinality(offline)
              /\ CountLine("critical alerts", Cardinality(Alerting))
              /\ CountLine("warnings", Cardinality(Warning))
              /\ (LinesTagged("All systems healthy") # {}) <=> (Alerting = {} /\ Warning = {})
              /\ (online = Machines /\ Alerting = {} /\ Warning = {}) =>
                    /\ lines[2].online = Len(monitor.vms) /\ lines[2].offline = 0
                    /\ lines[3].tag = "All systems healthy" /\ Len(lines) = 3

\* three machines: one at CPU 80 (warning), one at RAM 90 (alert), one
\* offline at 79: red glyph, one alert, one warning
C10_Witness ==
    /\ IsSummary /\ Len(monitor.vms) = 3
    /\ Cardinality(Alerting) = 1 /\ Cardinality(Warning) = 1
    /\ \E i \in Alerting : monitor.vms[i].cpu_avg = 89
    /\ \E i \in Warning : monitor.vms[i].cpu_avg = 80
    /\ \E i \in Machines : monitor.vms[i].status = "offline"
    /\ calls[1].text.lines[1].glyph = "red"

----------------------------------------------------------------------------
(* C11: /detailed *)

IsDetailed == IsCommand /\ CommandWord \in {CMD_DETAILED, CMD_DETAIL, CMD_LIST}

\* the machine a row of the table shows
MachineOf(row) == CHOOSE i \in Machines : monitor.vms[i].hostname = row.hostname
ShownMachines == {MachineOf(calls[1].text.rows[j]) : j \in DOMAIN calls[1].text.rows}

\* a machine's online state, read from its status field or from its online flag
IsOnline(vm, reading) == IF reading = "status" THEN vm.status = "online" ELSE vm.online

\* a comes strictly before b when online machines come first and, within the
\* same online state, the higher CPU comes first
OnlineFirst(a, b, reading) ==
    \/ IsOnline(a, reading) /\ ~IsOnline(b, reading)
    \/ IsOnline(a, reading) = IsOnline(b, reading) /\ a.cpu_avg > b.cpu_avg

\* the rows are the first rows of the online-first order
RowsOnlineFirst(reading) ==
    LET rows == calls[1].text.rows IN
    /\ \A j, k \in DOMAIN rows :
          j < k => ~OnlineFirst(monitor.vms[MachineOf(rows[k])],
                                monitor.vms[MachineOf(rows[j])], reading)
    /\ \A i \in ShownMachines, u \in Machines \ ShownMachines :
          ~OnlineFirst(monitor.vms[u], monitor.vms[i], reading)

\* the cap of 20 rows and the trailer
CappedWithTrailer ==
    LET text == calls[1].text
        n == Len(monitor.vms)
    IN /\ Len(text.rows) = (IF n > 20 THEN 20 ELSE n)
       /\ Cardinality(ShownMachines) = Len(text.rows)
       /\ text.more = (IF n > 20 THEN n - 20 ELSE 0)

\* C11: the detailed report lists the machines online-first and, within the
\* same online state, by descending CPU; it shows at most 20 rows, the first
\* 20 of that order, and a list of more than 20 machines ends with a trailer
\* giving the list length minus 20.  The online state is taken in whichever
\* of its two readings makes the statement true.
C11_Original ==
    (IsDetailed /\ monitor.mode = "ok") =>
        /\ Len(calls) = 1 /\ calls[1].text.kind = "fleet"
        /\ CappedWithTrailer
        /\ \E reading \in {"status", "flag"} : RowsOnlineFirst(reading)

----------------------------------------------------------------------------
(* C12: rejected sends *)

IsSend == Answered("/send") \/ Answered("/send/batch")

\* the request names no recipient
NoRecipient ==
    IF request.endpoint = "/send" THEN ~TruthyChat(request.chat_id)
    ELSE request.chat_ids = <<>>

\* the request fails the gate or one of the validations, as the files stand
FailsGate == NoCallerKey \/ CallerKey \notin FileKeys
FailsValidation ==
    \/ request.template \in {None, ""}
    \/ NoRecipient
    \/ request.template \notin DOMAIN MergedTemplates
    \/ Missing # {}

\* C12: a POST /send or POST /send/batch request that fails the API-key gate
\* (401/403) or validation (missing template, missing chat_id/chat_ids,
\* unknown template, missing template variable) is rejected with 400, 401 or
\* 403, and a request rejected with one of these makes no call to the
\* messaging API and hands nothing to the relay client, whatever the number
\* of its recipients.
C12_NoSendWhenRejected ==
    IsSend =>
        /\ FailsGate => GateRejected /\ calls = <<>> /\ posts = <<>>
        /\ (~FailsGate /\ FailsValidation) =>
              response.status = 400 /\ calls = <<>> /\ posts = <<>>
        /\ response.status \in {400, 401, 403} => calls = <<>> /\ posts = <<>>

\* a batch for three recipients with an accepted key and a bot token, whose
\* template lacks a variable
C12_Witness ==
    /\ Answered("/send/batch") /\ ~FailsGate /\ FileToken # ""
    /\ Len(request.chat_ids) = 3
    /\ request.template \in DOMAIN MergedTemplates /\ Missing # {}
    /\ response.status = 400 /\ posts = <<>>

====
